---- MODULE Spec2Model ----
(***************************************************************************)
(* The token registry of iwinswap-erc20-token-system: a struct-of-arrays   *)
(* store (src/token.go) with two index maps, an identifier counter and     *)
(* swap-and-pop deletion.                                                  *)
(*                                                                         *)
(* Slices are TLA+ sequences; a Go slot index i (0-based) is element i+1.  *)
(* Maps are functions whose DOMAIN is the key set. uint64 arithmetic on    *)
(* identifiers wraps modulo IDSpace (2^64 in the source, small here).      *)
(***************************************************************************)
EXTENDS Integers, Sequences, FiniteSets, TLC

\* ------------------------------------------------------------------ bounds
\* Largest number of records the model lets the store grow to.
MaxLen == 3
\* Number of values of the identifier type (uint64: 2^64 in the source).
IDSpace == 4
\* Longest snapshot handed to NewTokenRegistryFromViews at construction.
MaxViews == 2
\* The successful inserts a registry created empty is followed through.
MaxInserts == 5
\* The goroutines calling one TokenSystem, each making one call.
NumCallers == 2

\* ------------------------------------------------------------- input sets
IDs == 0 .. (IDSpace - 1)
\* The tokens offered to insert: (address, name, symbol, decimals), in the
\* manner of newTestRegistry. Each address comes with its own metadata, so
\* that a record that took a field from another record is told apart.
Tokens == {<<1, "Token A", "TKA", 18>>, <<2, "Token B", "TKB", 18>>,
           <<3, "Token C", "TKC", 6>>}
Addrs == {t[1] : t \in Tokens}
\* (fee, gas) pairs offered to update; fee in tenths of a percent.
FeeGas == {<<55, 21000>>, <<0, 0>>}

\* ----------------------------------------------------------------- errors
NoErr == "nil"
ErrTokenNotFound == "token not found"
ErrAlreadyExists == "token already exists"
ErrDuplicateID == "invalid view: duplicate token ID"
ErrDuplicateAddress == "invalid view: duplicate token address"
\* Go's runtime panic on an out-of-range slice index.
ErrPanic == "panic: index out of range"

\* ------------------------------------------------------- Go value helpers
\* uint64 arithmetic wraps.
U64(x) == x % IDSpace

EmptyMap == [k \in {} |-> 0]
MapHas(m, k) == k \in DOMAIN m
\* m[k] of a Go map: the zero value when k is absent.
MapGet(m, k) == IF k \in DOMAIN m THEN m[k] ELSE 0
MapSet(m, k, v) == [x \in (DOMAIN m) \cup {k} |-> IF x = k THEN v ELSE m[x]]
MapDelete(m, k) == [x \in (DOMAIN m) \ {k} |-> m[x]]

\* s[i] and s[i] = v for a 0-based slot index i.
At(s, i) == s[i + 1]
SetAt(s, i, v) == [s EXCEPT ![i + 1] = v]
\* s[:n]
Truncate(s, n) == SubSeq(s, 1, n)
\* make([]T, n): n zero values.
Zeroes(n, zero) == [i \in 1 .. n |-> zero]

\* ------------------------------------------------------------- TokenView
TokenView(id, addr, name, symbol, decimals, fee, gas) ==
    [ID |-> id, Address |-> addr, Name |-> name, Symbol |-> symbol,
     Decimals |-> decimals, FeeOnTransferPercent |-> fee, GasForTransfer |-> gas]

\* TokenView{}: the zero value returned beside an error.
ZeroView == TokenView(0, 0, "", "", 0, 0, 0)

\* The views a snapshot given at construction is made of.
InputViews ==
    {TokenView(i, t[1], t[2], t[3], t[4], fg[1], fg[2]) :
        i \in IDs, t \in Tokens, fg \in FeeGas}

Snapshots == UNION {[1 .. n -> InputViews] : n \in 0 .. MaxViews}

\* The snapshots reconstruction is followed on: at most MaxViews + 1 views
\* that have a fee and a gas estimate set.
LongSnapshots ==
    UNION {[1 .. n -> {view \in InputViews : view.GasForTransfer # 0}] :
             n \in 0 .. (MaxViews + 1)}

\* ---------------------------------------------------------- TokenRegistry
\* The nil *TokenRegistry that NewTokenRegistryFromViews returns beside an
\* error.
NilRegistry == [nil |-> TRUE]

NewTokenRegistry ==
    [address |-> <<>>, name |-> <<>>, symbol |-> <<>>, decimals |-> <<>>,
     feeOnTransferPercent |-> <<>>, gasForTransfer |-> <<>>, id |-> <<>>,
     nextID |-> 1, idToIndex |-> EmptyMap, addressToID |-> EmptyMap]

\* The loop of NewTokenRegistryFromViews from view i (0-based) on.
RECURSIVE FromViewsLoop(_, _, _, _)
FromViewsLoop(views, i, registry, maxID) ==
    IF i >= Len(views)
    THEN [registry |-> [registry EXCEPT !.nextID = U64(maxID + 1)], err |-> NoErr]
    ELSE LET view == At(views, i) IN
         IF MapHas(registry.idToIndex, view.ID)
         THEN [registry |-> NilRegistry, err |-> ErrDuplicateID]
         ELSE IF MapHas(registry.addressToID, view.Address)
         THEN [registry |-> NilRegistry, err |-> ErrDuplicateAddress]
         ELSE FromViewsLoop(views, i + 1,
                [registry EXCEPT
                   !.address = SetAt(@, i, view.Address),
                   !.name = SetAt(@, i, view.Name),
                   !.symbol = SetAt(@, i, view.Symbol),
                   !.decimals = SetAt(@, i, view.Decimals),
                   !.feeOnTransferPercent = SetAt(@, i, view.FeeOnTransferPercent),
                   !.gasForTransfer = SetAt(@, i, view.GasForTransfer),
                   !.id = SetAt(@, i, view.ID),
                   !.idToIndex = MapSet(@, view.ID, i),
                   !.addressToID = MapSet(@, view.Address, view.ID)],
                IF view.ID > maxID THEN view.ID ELSE maxID)

\* The loop with its two checks in the other order: the address of a view
\* is looked up before its identifier.
RECURSIVE FromViewsLoopAddressFirst(_, _, _, _)
FromViewsLoopAddressFirst(views, i, registry, maxID) ==
    IF i >= Len(views)
    THEN [registry |-> [registry EXCEPT !.nextID = U64(maxID + 1)], err |-> NoErr]
    ELSE LET view == At(views, i) IN
         IF MapHas(registry.addressToID, view.Address)
         THEN [registry |-> NilRegistry, err |-> ErrDuplicateAddress]
         ELSE IF MapHas(registry.idToIndex, view.ID)
         THEN [registry |-> NilRegistry, err |-> ErrDuplicateID]
         ELSE FromViewsLoopAddressFirst(views, i + 1,
                [registry EXCEPT
                   !.address = SetAt(@, i, view.Address),
                   !.name = SetAt(@, i, view.Name),
                   !.symbol = SetAt(@, i, view.Symbol),
                   !.decimals = SetAt(@, i, view.Decimals),
                   !.feeOnTransferPercent = SetAt(@, i, view.FeeOnTransferPercent),
                   !.gasForTransfer = SetAt(@, i, view.GasForTransfer),
                   !.id = SetAt(@, i, view.ID),
                   !.idToIndex = MapSet(@, view.ID, i),
                   !.addressToID = MapSet(@, view.Address, view.ID)],
                IF view.ID > maxID THEN view.ID ELSE maxID)

\* The registry before the loop: slices of numTokens zero values, empty
\* maps (lines 74-85).
Preallocated(numTokens) ==
    [address |-> Zeroes(numTokens, 0), name |-> Zeroes(numTokens, ""),
     symbol |-> Zeroes(numTokens, ""), decimals |-> Zeroes(numTokens, 0),
     feeOnTransferPercent |-> Zeroes(numTokens, 0),
     gasForTransfer |-> Zeroes(numTokens, 0), id |-> Zeroes(numTokens, 0),
     nextID |-> 1, idToIndex |-> EmptyMap, addressToID |-> EmptyMap]

NewTokenRegistryFromViewsAddressFirst(views) ==
    FromViewsLoopAddressFirst(views, 0, Preallocated(Len(views)), 0)

\* [registry, err]; beside an error the registry is nil.
NewTokenRegistryFromViews(views) ==
    LET numTokens == Len(views) IN
    FromViewsLoop(views, 0, Preallocated(numTokens), 0)

\* addToken without the existence check of lines 119-121.
addTokenNoCheck(addr, name, symbol, decimals, registry) ==
    LET newID == registry.nextID
        newIndex == Len(registry.address)
    IN [registry |->
           [registry EXCEPT
              !.nextID = U64(@ + 1),
              !.address = Append(@, addr),
              !.name = Append(@, name),
              !.symbol = Append(@, symbol),
              !.decimals = Append(@, decimals),
              !.feeOnTransferPercent = Append(@, 0),
              !.gasForTransfer = Append(@, 0),
              !.id = Append(@, newID),
              !.idToIndex = MapSet(@, newID, newIndex),
              !.addressToID = MapSet(@, addr, newID)],
        id |-> newID, err |-> NoErr]

\* addToken that takes the next identifier before the existence check, so
\* that a refused insert has advanced the counter.
addTokenCountsFirst(addr, name, symbol, decimals, registry) ==
    LET newID == registry.nextID
        counted == [registry EXCEPT !.nextID = U64(@ + 1)]
    IN IF MapHas(registry.addressToID, addr)
       THEN [registry |-> counted, id |-> 0, err |-> ErrAlreadyExists]
       ELSE LET newIndex == Len(registry.address)
            IN [registry |->
                   [counted EXCEPT
                      !.address = Append(@, addr),
                      !.name = Append(@, name),
                      !.symbol = Append(@, symbol),
                      !.decimals = Append(@, decimals),
                      !.feeOnTransferPercent = Append(@, 0),
                      !.gasForTransfer = Append(@, 0),
                      !.id = Append(@, newID),
                      !.idToIndex = MapSet(@, newID, newIndex),
                      !.addressToID = MapSet(@, addr, newID)],
                id |-> newID, err |-> NoErr]

\* [registry, id, err]
addToken(addr, name, symbol, decimals, registry) ==
    IF MapHas(registry.addressToID, addr)
    THEN [registry |-> registry, id |-> 0, err |-> ErrAlreadyExists]
    ELSE LET newID == registry.nextID
             newIndex == Len(registry.address)
         IN [registry |->
                [registry EXCEPT
                   !.nextID = U64(@ + 1),
                   !.address = Append(@, addr),
                   !.name = Append(@, name),
                   !.symbol = Append(@, symbol),
                   !.decimals = Append(@, decimals),
                   !.feeOnTransferPercent = Append(@, 0),
                   !.gasForTransfer = Append(@, 0),
                   !.id = Append(@, newID),
                   !.idToIndex = MapSet(@, newID, newIndex),
                   !.addressToID = MapSet(@, addr, newID)],
             id |-> newID, err |-> NoErr]

\* SwapLast without line 160: the relocated record keeps its old idToIndex
\* entry.
SwapLastNoReindex(registry, indexToDelete, lastIndex) ==
    [registry EXCEPT
       !.address = SetAt(@, indexToDelete, At(registry.address, lastIndex)),
       !.name = SetAt(@, indexToDelete, At(registry.name, lastIndex)),
       !.symbol = SetAt(@, indexToDelete, At(registry.symbol, lastIndex)),
       !.decimals = SetAt(@, indexToDelete, At(registry.decimals, lastIndex)),
       !.feeOnTransferPercent =
            SetAt(@, indexToDelete, At(registry.feeOnTransferPercent, lastIndex)),
       !.gasForTransfer =
            SetAt(@, indexToDelete, At(registry.gasForTransfer, lastIndex)),
       !.id = SetAt(@, indexToDelete, At(registry.id, lastIndex))]

\* Lines 152-160: the record of the last slot overwrites slot indexToDelete.
SwapLast(registry, indexToDelete, lastIndex) ==
    LET lastID == At(registry.id, lastIndex) IN
    [registry EXCEPT
       !.address = SetAt(@, indexToDelete, At(registry.address, lastIndex)),
       !.name = SetAt(@, indexToDelete, At(registry.name, lastIndex)),
       !.symbol = SetAt(@, indexToDelete, At(registry.symbol, lastIndex)),
       !.decimals = SetAt(@, indexToDelete, At(registry.decimals, lastIndex)),
       !.feeOnTransferPercent =
            SetAt(@, indexToDelete, At(registry.feeOnTransferPercent, lastIndex)),
       !.gasForTransfer =
            SetAt(@, indexToDelete, At(registry.gasForTransfer, lastIndex)),
       !.id = SetAt(@, indexToDelete, lastID),
       !.idToIndex = MapSet(@, lastID, indexToDelete)]

\* Lines 163-172: truncate every slice, drop both index entries.
PopLast(registry, lastIndex, idToDelete, addressToDelete) ==
    [registry EXCEPT
       !.address = Truncate(@, lastIndex),
       !.name = Truncate(@, lastIndex),
       !.symbol = Truncate(@, lastIndex),
       !.decimals = Truncate(@, lastIndex),
       !.feeOnTransferPercent = Truncate(@, lastIndex),
       !.gasForTransfer = Truncate(@, lastIndex),
       !.id = Truncate(@, lastIndex),
       !.idToIndex = MapDelete(@, idToDelete),
       !.addressToID = MapDelete(@, addressToDelete)]

\* deleteToken without the presence check of lines 143-146: an absent
\* identifier reads slot index 0, the zero value of the map.
deleteTokenNoCheck(idToDelete, registry) ==
    LET indexToDelete == MapGet(registry.idToIndex, idToDelete)
        lastIndex == Len(registry.address) - 1
    IN IF indexToDelete < 0 \/ indexToDelete > lastIndex
       THEN [registry |-> registry, err |-> ErrPanic]
       ELSE LET addressToDelete == At(registry.address, indexToDelete)
                swapped == IF indexToDelete # lastIndex
                           THEN SwapLast(registry, indexToDelete, lastIndex)
                           ELSE registry
            IN [registry |->
                   PopLast(swapped, lastIndex, idToDelete, addressToDelete),
                err |-> NoErr]

\* [registry, err]
deleteToken(idToDelete, registry) ==
    IF ~MapHas(registry.idToIndex, idToDelete)
    THEN [registry |-> registry, err |-> ErrTokenNotFound]
    ELSE LET indexToDelete == registry.idToIndex[idToDelete]
             lastIndex == Len(registry.address) - 1
         IN IF indexToDelete < 0 \/ indexToDelete > lastIndex
            THEN [registry |-> registry, err |-> ErrPanic]
            ELSE LET addressToDelete == At(registry.address, indexToDelete)
                     swapped == IF indexToDelete # lastIndex
                                THEN SwapLast(registry, indexToDelete, lastIndex)
                                ELSE registry
                 IN [registry |->
                        PopLast(swapped, lastIndex, idToDelete, addressToDelete),
                     err |-> NoErr]

\* updateToken without line 184: the gas estimate is not written.
updateTokenFeeOnly(id, feeOnTransferPercent, gasForTransfer, registry) ==
    IF ~MapHas(registry.idToIndex, id)
    THEN [registry |-> registry, err |-> ErrTokenNotFound]
    ELSE LET index == registry.idToIndex[id] IN
         IF index < 0 \/ index >= Len(registry.feeOnTransferPercent)
         THEN [registry |-> registry, err |-> ErrPanic]
         ELSE [registry |->
                  [registry EXCEPT
                     !.feeOnTransferPercent = SetAt(@, index, feeOnTransferPercent)],
               err |-> NoErr]

\* [registry, err]
updateToken(id, feeOnTransferPercent, gasForTransfer, registry) ==
    IF ~MapHas(registry.idToIndex, id)
    THEN [registry |-> registry, err |-> ErrTokenNotFound]
    ELSE LET index == registry.idToIndex[id] IN
         IF index < 0 \/ index >= Len(registry.feeOnTransferPercent)
         THEN [registry |-> registry, err |-> ErrPanic]
         ELSE [registry |->
                  [registry EXCEPT
                     !.feeOnTransferPercent = SetAt(@, index, feeOnTransferPercent),
                     !.gasForTransfer = SetAt(@, index, gasForTransfer)],
               err |-> NoErr]

\* The view built from slot index with identifier id (lines 195-203, 213-221).
ViewAt(id, index, registry) ==
    TokenView(id, At(registry.address, index), At(registry.name, index),
              At(registry.symbol, index), At(registry.decimals, index),
              At(registry.feeOnTransferPercent, index),
              At(registry.gasForTransfer, index))

\* [view, err]
getTokenByID(id, registry) ==
    IF ~MapHas(registry.idToIndex, id)
    THEN [view |-> ZeroView, err |-> ErrTokenNotFound]
    ELSE LET index == registry.idToIndex[id] IN
         IF index < 0 \/ index >= Len(registry.address)
         THEN [view |-> ZeroView, err |-> ErrPanic]
         ELSE [view |-> ViewAt(id, index, registry), err |-> NoErr]

\* [view, err]
getTokenByAddress(addr, registry) ==
    IF ~MapHas(registry.addressToID, addr)
    THEN [view |-> ZeroView, err |-> ErrTokenNotFound]
    ELSE LET id == registry.addressToID[addr]
             index == MapGet(registry.idToIndex, id)
         IN IF index < 0 \/ index >= Len(registry.address)
            THEN [view |-> ZeroView, err |-> ErrPanic]
            ELSE [view |-> ViewAt(id, index, registry), err |-> NoErr]

viewRegistry(registry) ==
    LET length == Len(registry.address) IN
    [i \in 1 .. length |-> ViewAt(At(registry.id, i - 1), i - 1, registry)]

\* ------------------------------------------------------------ the machine
VARIABLES
    registry,   \* the TokenRegistry
    last,       \* the last call on it: operation, arguments, results
    issued,     \* every identifier the registry has held or returned so far
    views,      \* the snapshot handed to CallFromViews, <<>> before it
    inserts,    \* the number of inserts that have succeeded
    mu,         \* the sync.RWMutex of a TokenSystem
    callers,    \* the goroutines calling a TokenSystem: position, locals
    ghost       \* what the calls of a TokenSystem are compared against

vars == <<registry, last, issued>>
\* What the machine of the store (Spec) leaves alone.
aside == <<views, inserts, mu, callers, ghost>>
allVars == <<vars, aside>>

Callers == 1 .. NumCallers

\* A result: the identifier, view or views returned, and the error.
NoOut == [ret |-> 0, err |-> NoErr]

\* A goroutine that has not called yet. pc is its position in system.go,
\* line its position in token.go while pc = "store"; newID .. addressToDelete
\* are the locals of the store operation it runs, out what it returns. want,
\* before and base are history: the result the same call has on the store
\* run sequentially, the callers that had returned when this one called,
\* and the store as the last complete mutation had left it when this one
\* read.
IdleCaller ==
    [pc |-> "idle", op |-> "", addr |-> 0, id |-> 0, line |-> 0,
     newID |-> 0, index |-> 0, lastIndex |-> 0, lastID |-> 0,
     addressToDelete |-> 0, out |-> NoOut, want |-> NoOut, before |-> {},
     base |-> NilRegistry]
DoneCaller == [IdleCaller EXCEPT !.pc = "done"]

\* An unlocked RWMutex: w is the writer that holds or awaits the lock (0 for
\* none), r the readers that hold it.
MuFree == [w |-> 0, r |-> {}]

\* History of a TokenSystem built on registry r: the store run sequentially
\* (shadow), the store as the last complete mutation left it (settled), the
\* callers in the order they acquired the lock, the records at construction
\* and the inserts and deletes that returned success.
GhostOf(r) ==
    [shadow |-> r, settled |-> r, order |-> <<>>,
     initial |-> Len(r.address), added |-> 0, deleted |-> 0]

\* No goroutine calls: the store is used directly.
NoService ==
    /\ mu = MuFree
    /\ callers = <<>>
    /\ ghost = <<>>

\* A call record. addr and id are the arguments (0 where the operation has
\* none), slot is the slot index the call located (-1 when it located none),
\* ret the identifier returned and err the error returned.
Call(op, addr, id, slot, ret, err) ==
    [op |-> op, addr |-> addr, id |-> id, slot |-> slot, ret |-> ret, err |-> err]

\* The ids of a snapshot.
ViewIDs(snapshot) == {snapshot[i].ID : i \in DOMAIN snapshot}

InitEmpty ==
    /\ registry = NewTokenRegistry
    /\ last = Call("NewTokenRegistry", 0, 0, -1, 0, NoErr)
    /\ issued = {}
    /\ views = <<>>
    /\ inserts = 0
    /\ NoService

InitFromViews ==
    \E snapshot \in Snapshots :
        LET res == NewTokenRegistryFromViews(snapshot) IN
        /\ res.err = NoErr
        /\ registry = res.registry
        /\ last = Call("NewTokenRegistryFromViews", 0, 0, -1, 0, NoErr)
        /\ issued = ViewIDs(snapshot)
        /\ views = <<>>
        /\ inserts = 0
        /\ NoService

Init == InitEmpty \/ InitFromViews

CallAddToken(token) ==
    LET res == addToken(token[1], token[2], token[3], token[4], registry) IN
    /\ Len(registry.address) < MaxLen \/ res.err # NoErr
    /\ registry' = res.registry
    /\ last' = Call("addToken", token[1], 0,
                    IF res.err = NoErr THEN Len(registry.address) ELSE -1,
                    res.id, res.err)
    /\ issued' = IF res.err = NoErr THEN issued \cup {res.id} ELSE issued

CallDeleteToken(id) ==
    LET res == deleteToken(id, registry) IN
    /\ registry' = res.registry
    /\ last' = Call("deleteToken", 0, id,
                    IF res.err = NoErr THEN registry.idToIndex[id] ELSE -1,
                    0, res.err)
    /\ UNCHANGED issued

CallUpdateToken(id, fg) ==
    LET res == updateToken(id, fg[1], fg[2], registry) IN
    /\ registry' = res.registry
    /\ last' = Call("updateToken", 0, id,
                    IF res.err = NoErr THEN registry.idToIndex[id] ELSE -1,
                    0, res.err)
    /\ UNCHANGED issued

Next ==
    \/ \E token \in Tokens : CallAddToken(token) /\ UNCHANGED aside
    \/ \E id \in IDs : CallDeleteToken(id) /\ UNCHANGED aside
    \/ \E id \in IDs, fg \in FeeGas : CallUpdateToken(id, fg) /\ UNCHANGED aside

Spec == Init /\ [][Next]_allVars

\* ------------------------------------------- the machine of reconstruction
\* A caller hands a snapshot of up to MaxViews + 1 views to
\* NewTokenRegistryFromViews, once, and gets a registry, or nil and an
\* error.
CallFromViews(snapshot) ==
    LET res == NewTokenRegistryFromViews(snapshot) IN
    /\ last.op = "NewTokenRegistry"
    /\ views' = snapshot
    /\ registry' = res.registry
    /\ last' = Call("NewTokenRegistryFromViews", 0, 0, -1, 0, res.err)
    /\ issued' = IF res.err = NoErr THEN ViewIDs(snapshot) ELSE {}
    /\ UNCHANGED <<inserts, mu, callers, ghost>>

InitViews == InitEmpty

NextViews == \E snapshot \in LongSnapshots : CallFromViews(snapshot)

SpecViews == InitViews /\ [][NextViews]_allVars

\* --------------------------------- the machine of a registry created empty
\* The calls of Spec on a registry made by NewTokenRegistry, its successful
\* inserts counted, up to MaxInserts of them.
CountedAddToken(token) ==
    /\ CallAddToken(token)
    /\ inserts < MaxInserts \/ last'.err # NoErr
    /\ inserts' = IF last'.err = NoErr THEN inserts + 1 ELSE inserts
    /\ UNCHANGED <<views, mu, callers, ghost>>

NextEmpty ==
    \/ \E token \in Tokens : CountedAddToken(token)
    \/ \E id \in IDs : CallDeleteToken(id) /\ UNCHANGED aside
    \/ \E id \in IDs, fg \in FeeGas : CallUpdateToken(id, fg) /\ UNCHANGED aside

SpecEmpty == InitEmpty /\ [][NextEmpty]_allVars

\* --------------------------------- the machine of a registry saved and restored
\* The calls of SpecEmpty, and the round trip: the registry is replaced by
\* the one NewTokenRegistryFromViews builds from its snapshot viewRegistry.
\* issued goes on holding every identifier an insert returned before.
CallRestore ==
    LET res == NewTokenRegistryFromViews(viewRegistry(registry)) IN
    /\ registry' = IF res.err = NoErr THEN res.registry ELSE registry
    /\ last' = Call("NewTokenRegistryFromViews", 0, 0, -1, 0, res.err)
    /\ UNCHANGED <<issued, aside>>

NextRestore ==
    \/ \E token \in Tokens : CountedAddToken(token)
    \/ \E id \in IDs : CallDeleteToken(id) /\ UNCHANGED aside
    \/ \E id \in IDs, fg \in FeeGas : CallUpdateToken(id, fg) /\ UNCHANGED aside
    \/ CallRestore

SpecRestore == InitEmpty /\ [][NextRestore]_allVars

\* ------------------------------------------------- the machine of a service
\* TokenSystem (system.go): goroutines call the six methods of one
\* TokenSystem concurrently. A method takes the lock, runs the store
\* operation and releases the lock on return (defer). The statements of a
\* mutating store operation are separate steps.
Mutations == {"AddToken", "DeleteToken", "UpdateToken"}
Reads == {"View", "GetTokenByID", "GetTokenByAddress"}

\* The update a caller asks for (TestUpdateToken).
ServiceFeeGas == <<55, 21000>>

\* The calls a goroutine may make: the method and its arguments.
ServiceCalls ==
    {[op |-> "AddToken", addr |-> a, id |-> 0] : a \in Addrs}
       \cup {[op |-> o, addr |-> 0, id |-> i] :
               o \in {"DeleteToken", "UpdateToken", "GetTokenByID"}, i \in IDs}
       \cup {[op |-> "GetTokenByAddress", addr |-> a, id |-> 0] : a \in Addrs}
       \cup {[op |-> "View", addr |-> 0, id |-> 0]}

TokenOf(addr) == CHOOSE t \in Tokens : t[1] = addr

\* A pool of MaxViews fresh tokens with consecutive identifiers from first
\* on.
Pool(first) ==
    [n \in 1 .. MaxViews |->
        LET t == TokenOf(n) IN
        TokenView(U64(first + n - 1), t[1], t[2], t[3], t[4], 0, 0)]

\* The snapshots a service is built from (NewTokenSystemFromViews): none,
\* the pool with the identifiers 1, 2, ... and the pool whose first
\* identifier is the largest one.
ServiceSnapshots == {<<>>, Pool(1), Pool(IDSpace - 1)}

\* The per-field slices in the order the store operations go through them
\* (lines 127-133, 153-159, 163-169).
Fields ==
    <<"address", "name", "symbol", "decimals", "feeOnTransferPercent",
      "gasForTransfer", "id">>

\* Index i is in range of every slice.
Indexable(r, i) == \A n \in DOMAIN Fields : i >= 0 /\ i < Len(r[Fields[n]])

\* A mutating method run in one piece on store r: [registry, out].
Apply(call, r) ==
    CASE call.op = "AddToken" ->
            LET t == TokenOf(call.addr)
                res == addToken(t[1], t[2], t[3], t[4], r)
            IN [registry |-> res.registry,
                out |-> [ret |-> res.id, err |-> res.err]]
      [] call.op = "DeleteToken" ->
            LET res == deleteToken(call.id, r)
            IN [registry |-> res.registry, out |-> [ret |-> 0, err |-> res.err]]
      [] call.op = "UpdateToken" ->
            LET res == updateToken(call.id, ServiceFeeGas[1], ServiceFeeGas[2], r)
            IN [registry |-> res.registry, out |-> [ret |-> 0, err |-> res.err]]

\* A reading method on store r: out. An index out of range of a slice is a
\* panic.
Read(call, r) ==
    CASE call.op = "GetTokenByID" ->
            IF MapHas(r.idToIndex, call.id) /\ ~Indexable(r, r.idToIndex[call.id])
            THEN [ret |-> ZeroView, err |-> ErrPanic]
            ELSE LET res == getTokenByID(call.id, r)
                 IN [ret |-> res.view, err |-> res.err]
      [] call.op = "GetTokenByAddress" ->
            IF /\ MapHas(r.addressToID, call.addr)
               /\ ~Indexable(r, MapGet(r.idToIndex, r.addressToID[call.addr]))
            THEN [ret |-> ZeroView, err |-> ErrPanic]
            ELSE LET res == getTokenByAddress(call.addr, r)
                 IN [ret |-> res.view, err |-> res.err]
      [] call.op = "View" ->
            IF \A i \in 0 .. (Len(r.address) - 1) : Indexable(r, i)
            THEN [ret |-> viewRegistry(r), err |-> NoErr]
            ELSE [ret |-> <<>>, err |-> ErrPanic]

\* The call goroutine c is making.
CallOf(c) == [op |-> callers[c].op, addr |-> callers[c].addr, id |-> callers[c].id]

\* Return without defer: an error return leaves the method at once, the
\* lock still held.
ReturnLeakOnError(c, out) ==
    callers' = [callers EXCEPT ![c] =
                  IF out.err # NoErr
                  THEN DoneCaller
                  ELSE [IdleCaller EXCEPT
                          !.pc = IF callers[c].op \in Mutations THEN "Unlock" ELSE "RUnlock",
                          !.op = callers[c].op, !.addr = callers[c].addr,
                          !.id = callers[c].id, !.out = out,
                          !.want = callers[c].want, !.before = callers[c].before]]

\* The store operation of c returns out: what is left is the deferred
\* release of the lock.
Return(c, out) ==
    callers' = [callers EXCEPT ![c] =
                  [IdleCaller EXCEPT
                     !.pc = IF callers[c].op \in Mutations THEN "Unlock" ELSE "RUnlock",
                     !.op = callers[c].op, !.addr = callers[c].addr,
                     !.id = callers[c].id, !.out = out,
                     !.want = callers[c].want, !.before = callers[c].before]]

\* c goes on to the statement at line n with its locals as in me.
Goto(c, me, n) == callers' = [callers EXCEPT ![c] = [me EXCEPT !.line = n]]

Panic == [ret |-> 0, err |-> ErrPanic]

\* Goroutine c calls a method.
Begin(c, call) ==
    /\ callers[c].pc = "idle"
    /\ callers' = [callers EXCEPT ![c] =
                     [IdleCaller EXCEPT
                        !.pc = IF call.op \in Mutations THEN "Lock" ELSE "RLock",
                        !.op = call.op, !.addr = call.addr, !.id = call.id,
                        !.before = {d \in Callers : callers[d].pc = "done"}]]
    /\ UNCHANGED <<registry, mu, ghost>>

\* muLock that does not wait for the writer there is.
muLockNoExclusion(c) ==
    /\ callers[c].pc = "Lock"
    /\ mu' = [mu EXCEPT !.w = c]
    /\ callers' = [callers EXCEPT ![c].pc = "LockWait"]
    /\ UNCHANGED <<registry, ghost>>

\* ts.mu.Lock(), first half: c becomes the writer; writers and new readers
\* wait from now on.
muLock(c) ==
    /\ callers[c].pc = "Lock"
    /\ mu.w = 0
    /\ mu' = [mu EXCEPT !.w = c]
    /\ callers' = [callers EXCEPT ![c].pc = "LockWait"]
    /\ UNCHANGED <<registry, ghost>>

\* muLocked that does not wait for the readers to leave.
muLockedNoWait(c) ==
    /\ callers[c].pc = "LockWait"
    /\ LET res == Apply(CallOf(c), ghost.shadow) IN
       /\ callers' = [callers EXCEPT
                        ![c].pc = "store",
                        ![c].line = CASE callers[c].op = "AddToken" -> 119
                                      [] callers[c].op = "DeleteToken" -> 143
                                      [] callers[c].op = "UpdateToken" -> 179,
                        ![c].want = res.out]
       /\ ghost' = [ghost EXCEPT !.shadow = res.registry,
                                 !.order = Append(@, c)]
    /\ UNCHANGED <<registry, mu>>

\* ts.mu.Lock(), second half: the readers that held the lock have left, and
\* c enters the store operation.
muLocked(c) ==
    /\ callers[c].pc = "LockWait"
    /\ mu.r = {}
    /\ LET res == Apply(CallOf(c), ghost.shadow) IN
       /\ callers' = [callers EXCEPT
                        ![c].pc = "store",
                        ![c].line = CASE callers[c].op = "AddToken" -> 119
                                      [] callers[c].op = "DeleteToken" -> 143
                                      [] callers[c].op = "UpdateToken" -> 179,
                        ![c].want = res.out]
       /\ ghost' = [ghost EXCEPT !.shadow = res.registry,
                                 !.order = Append(@, c)]
    /\ UNCHANGED <<registry, mu>>

\* The deferred ts.mu.Unlock(), and the return of the method.
muUnlock(c) ==
    /\ callers[c].pc = "Unlock"
    /\ mu' = [mu EXCEPT !.w = 0]
    /\ callers' = [callers EXCEPT ![c] = DoneCaller]
    /\ ghost' = [ghost EXCEPT
                   !.settled = registry,
                   !.added = IF callers[c].op = "AddToken"
                                /\ callers[c].out.err = NoErr
                             THEN @ + 1 ELSE @,
                   !.deleted = IF callers[c].op = "DeleteToken"
                                  /\ callers[c].out.err = NoErr
                               THEN @ + 1 ELSE @]
    /\ UNCHANGED registry

\* muRLock of a plain mutex: a reader waits for the readers too.
muRLockExclusive(c) ==
    /\ callers[c].pc = "RLock"
    /\ mu.w = 0
    /\ mu.r = {}
    /\ mu' = [mu EXCEPT !.r = @ \cup {c}]
    /\ callers' = [callers EXCEPT
                     ![c].pc = "store",
                     ![c].want = Read(CallOf(c), ghost.shadow)]
    /\ ghost' = [ghost EXCEPT !.order = Append(@, c)]
    /\ UNCHANGED registry

\* muRLock that does not wait for the writer.
muRLockNoWait(c) ==
    /\ callers[c].pc = "RLock"
    /\ mu' = [mu EXCEPT !.r = @ \cup {c}]
    /\ callers' = [callers EXCEPT
                     ![c].pc = "store",
                     ![c].want = Read(CallOf(c), ghost.shadow)]
    /\ ghost' = [ghost EXCEPT !.order = Append(@, c)]
    /\ UNCHANGED registry

\* ts.mu.RLock(): c becomes a reader unless a writer holds or awaits the
\* lock.
muRLock(c) ==
    /\ callers[c].pc = "RLock"
    /\ mu.w = 0
    /\ mu' = [mu EXCEPT !.r = @ \cup {c}]
    /\ callers' = [callers EXCEPT
                     ![c].pc = "store",
                     ![c].want = Read(CallOf(c), ghost.shadow)]
    /\ ghost' = [ghost EXCEPT !.order = Append(@, c)]
    /\ UNCHANGED registry

\* The deferred ts.mu.RUnlock(), and the return of the method.
muRUnlock(c) ==
    /\ callers[c].pc = "RUnlock"
    /\ mu' = [mu EXCEPT !.r = @ \ {c}]
    /\ callers' = [callers EXCEPT ![c] = DoneCaller]
    /\ UNCHANGED <<registry, ghost>>

\* AddTokenStep without the check of lines 119-121.
AddTokenStepNoCheck(c) ==
    LET me == callers[c]
        n == me.line
        t == TokenOf(me.addr)
        appended == <<t[1], t[2], t[3], t[4], 0, 0, me.newID>>
    IN
    /\ me.pc = "store" /\ me.op = "AddToken"
    /\ CASE n = 119 ->
              /\ Goto(c, me, 123)
              /\ UNCHANGED registry
         [] n = 123 ->
              /\ registry' = [registry EXCEPT !.nextID = U64(@ + 1)]
              /\ Goto(c, [me EXCEPT !.newID = registry.nextID,
                                    !.index = Len(registry.address)], 127)
         [] n \in 127 .. 133 ->
              /\ registry' = [registry EXCEPT
                                ![Fields[n - 126]] = Append(@, appended[n - 126])]
              /\ Goto(c, me, IF n = 133 THEN 135 ELSE n + 1)
         [] n = 135 ->
              /\ registry' = [registry EXCEPT
                                !.idToIndex = MapSet(@, me.newID, me.index)]
              /\ Goto(c, me, 136)
         [] n = 136 ->
              /\ registry' = [registry EXCEPT
                                !.addressToID = MapSet(@, me.addr, me.newID)]
              /\ Return(c, [ret |-> me.newID, err |-> NoErr])
    /\ UNCHANGED <<mu, ghost>>

\* One statement of addToken (token.go:119-138).
AddTokenStep(c) ==
    LET me == callers[c]
        n == me.line
        t == TokenOf(me.addr)
        appended == <<t[1], t[2], t[3], t[4], 0, 0, me.newID>>
    IN
    /\ me.pc = "store" /\ me.op = "AddToken"
    /\ CASE n = 119 ->
              /\ IF MapHas(registry.addressToID, me.addr)
                 THEN Return(c, [ret |-> 0, err |-> ErrAlreadyExists])
                 ELSE Goto(c, me, 123)
              /\ UNCHANGED registry
         [] n = 123 ->
              /\ registry' = [registry EXCEPT !.nextID = U64(@ + 1)]
              /\ Goto(c, [me EXCEPT !.newID = registry.nextID,
                                    !.index = Len(registry.address)], 127)
         [] n \in 127 .. 133 ->
              /\ registry' = [registry EXCEPT
                                ![Fields[n - 126]] = Append(@, appended[n - 126])]
              /\ Goto(c, me, IF n = 133 THEN 135 ELSE n + 1)
         [] n = 135 ->
              /\ registry' = [registry EXCEPT
                                !.idToIndex = MapSet(@, me.newID, me.index)]
              /\ Goto(c, me, 136)
         [] n = 136 ->
              /\ registry' = [registry EXCEPT
                                !.addressToID = MapSet(@, me.addr, me.newID)]
              /\ Return(c, [ret |-> me.newID, err |-> NoErr])
    /\ UNCHANGED <<mu, ghost>>

\* One statement of deleteToken (token.go:143-174).
DeleteTokenStep(c) ==
    LET me == callers[c]
        n == me.line
    IN
    /\ me.pc = "store" /\ me.op = "DeleteToken"
    /\ CASE n = 143 ->
              /\ IF ~MapHas(registry.idToIndex, me.id)
                 THEN Return(c, [ret |-> 0, err |-> ErrTokenNotFound])
                 ELSE Goto(c, [me EXCEPT !.index = registry.idToIndex[me.id]], 148)
              /\ UNCHANGED registry
         [] n = 148 ->
              LET lastIndex == Len(registry.address) - 1 IN
              /\ IF me.index < 0 \/ me.index > lastIndex
                 THEN Return(c, Panic)
                 ELSE IF me.index # lastIndex
                 THEN IF lastIndex >= Len(registry.id)
                      THEN Return(c, Panic)
                      ELSE Goto(c, [me EXCEPT
                                      !.addressToDelete = At(registry.address, me.index),
                                      !.lastIndex = lastIndex,
                                      !.lastID = At(registry.id, lastIndex)], 153)
                 ELSE Goto(c, [me EXCEPT
                                 !.addressToDelete = At(registry.address, me.index),
                                 !.lastIndex = lastIndex], 163)
              /\ UNCHANGED registry
         [] n \in 153 .. 159 ->
              LET f == Fields[n - 152] IN
              IF me.index >= Len(registry[f]) \/ me.lastIndex >= Len(registry[f])
              THEN Return(c, Panic) /\ UNCHANGED registry
              ELSE /\ registry' =
                        [registry EXCEPT
                           ![f] = SetAt(@, me.index,
                                        IF n = 159 THEN me.lastID
                                        ELSE At(registry[f], me.lastIndex))]
                   /\ Goto(c, me, n + 1)
         [] n = 160 ->
              /\ registry' = [registry EXCEPT
                                !.idToIndex = MapSet(@, me.lastID, me.index)]
              /\ Goto(c, me, 163)
         [] n \in 163 .. 169 ->
              LET f == Fields[n - 162] IN
              IF me.lastIndex > Len(registry[f])
              THEN Return(c, Panic) /\ UNCHANGED registry
              ELSE /\ registry' = [registry EXCEPT ![f] = Truncate(@, me.lastIndex)]
                   /\ Goto(c, me, IF n = 169 THEN 171 ELSE n + 1)
         [] n = 171 ->
              /\ registry' = [registry EXCEPT !.idToIndex = MapDelete(@, me.id)]
              /\ Goto(c, me, 172)
         [] n = 172 ->
              /\ registry' = [registry EXCEPT
                                !.addressToID = MapDelete(@, me.addressToDelete)]
              /\ Return(c, [ret |-> 0, err |-> NoErr])
    /\ UNCHANGED <<mu, ghost>>

\* UpdateTokenStep whose line 184 writes nothing.
UpdateTokenStepFeeOnly(c) ==
    LET me == callers[c]
        n == me.line
    IN
    /\ me.pc = "store" /\ me.op = "UpdateToken"
    /\ CASE n = 179 ->
              /\ IF ~MapHas(registry.idToIndex, me.id)
                 THEN Return(c, [ret |-> 0, err |-> ErrTokenNotFound])
                 ELSE Goto(c, [me EXCEPT !.index = registry.idToIndex[me.id]], 183)
              /\ UNCHANGED registry
         [] n = 183 ->
              /\ registry' =
                   [registry EXCEPT
                      !.feeOnTransferPercent = SetAt(@, me.index, ServiceFeeGas[1])]
              /\ Goto(c, me, 184)
         [] n = 184 ->
              /\ UNCHANGED registry
              /\ Return(c, [ret |-> 0, err |-> NoErr])
    /\ UNCHANGED <<mu, ghost>>

\* One statement of updateToken (token.go:179-185).
UpdateTokenStep(c) ==
    LET me == callers[c]
        n == me.line
    IN
    /\ me.pc = "store" /\ me.op = "UpdateToken"
    /\ CASE n = 179 ->
              /\ IF ~MapHas(registry.idToIndex, me.id)
                 THEN Return(c, [ret |-> 0, err |-> ErrTokenNotFound])
                 ELSE Goto(c, [me EXCEPT !.index = registry.idToIndex[me.id]], 183)
              /\ UNCHANGED registry
         [] n = 183 ->
              IF me.index < 0 \/ me.index >= Len(registry.feeOnTransferPercent)
              THEN Return(c, Panic) /\ UNCHANGED registry
              ELSE /\ registry' =
                        [registry EXCEPT
                           !.feeOnTransferPercent = SetAt(@, me.index, ServiceFeeGas[1])]
                   /\ Goto(c, me, 184)
         [] n = 184 ->
              IF me.index < 0 \/ me.index >= Len(registry.gasForTransfer)
              THEN Return(c, Panic) /\ UNCHANGED registry
              ELSE /\ registry' =
                        [registry EXCEPT
                           !.gasForTransfer = SetAt(@, me.index, ServiceFeeGas[2])]
                   /\ Return(c, [ret |-> 0, err |-> NoErr])
    /\ UNCHANGED <<mu, ghost>>

\* ReadStep whose lookup of an absent identifier leaves a zero entry in
\* idToIndex, as indexing a map does in languages where a read inserts.
ReadStepInserting(c) ==
    /\ callers[c].pc = "store" /\ callers[c].op \in Reads
    /\ callers' = [callers EXCEPT ![c].pc = "RUnlock",
                                  ![c].out = Read(CallOf(c), registry),
                                  ![c].base = ghost.settled]
    /\ registry' = IF /\ callers[c].op = "GetTokenByID"
                      /\ ~MapHas(registry.idToIndex, callers[c].id)
                   THEN [registry EXCEPT !.idToIndex = MapSet(@, callers[c].id, 0)]
                   ELSE registry
    /\ UNCHANGED <<mu, ghost>>

\* viewRegistry, getTokenByID or getTokenByAddress under the read lock.
ReadStep(c) ==
    /\ callers[c].pc = "store" /\ callers[c].op \in Reads
    /\ callers' = [callers EXCEPT ![c].pc = "RUnlock",
                                  ![c].out = Read(CallOf(c), registry),
                                  ![c].base = ghost.settled]
    /\ UNCHANGED <<registry, mu, ghost>>

\* NewTokenSystem, or NewTokenSystemFromViews on a snapshot.
InitService ==
    /\ \E snapshot \in ServiceSnapshots :
          /\ registry = NewTokenRegistryFromViews(snapshot).registry
          /\ ghost = GhostOf(registry)
    /\ mu = MuFree
    /\ callers = [c \in Callers |-> IdleCaller]
    /\ last = Call("NewTokenSystem", 0, 0, -1, 0, NoErr)
    /\ issued = {}
    /\ views = <<>>
    /\ inserts = 0

\* What the machine of a service leaves alone.
storeLog == <<last, issued, views, inserts>>

NextService ==
    \/ \E c \in Callers, call \in ServiceCalls : Begin(c, call) /\ UNCHANGED storeLog
    \/ \E c \in Callers : muLock(c) /\ UNCHANGED storeLog
    \/ \E c \in Callers : muLocked(c) /\ UNCHANGED storeLog
    \/ \E c \in Callers : AddTokenStep(c) /\ UNCHANGED storeLog
    \/ \E c \in Callers : DeleteTokenStep(c) /\ UNCHANGED storeLog
    \/ \E c \in Callers : UpdateTokenStep(c) /\ UNCHANGED storeLog
    \/ \E c \in Callers : muUnlock(c) /\ UNCHANGED storeLog
    \/ \E c \in Callers : muRLock(c) /\ UNCHANGED storeLog
    \/ \E c \in Callers : ReadStep(c) /\ UNCHANGED storeLog
    \/ \E c \in Callers : muRUnlock(c) /\ UNCHANGED storeLog

SpecService == InitService /\ [][NextService]_allVars

\* A step of a call that has begun. The scheduler runs a goroutine that can
\* run, and the lock grants a request that can be granted: a step of a
\* begun call that stays possible is taken in the end.
Progress ==
    \E c \in Callers :
        /\ \/ muLock(c) \/ muLocked(c) \/ AddTokenStep(c) \/ DeleteTokenStep(c)
           \/ UpdateTokenStep(c) \/ muUnlock(c) \/ muRLock(c) \/ ReadStep(c)
           \/ muRUnlock(c)
        /\ UNCHANGED storeLog

\* One call of each method, on the first token and the identifier 1: each
\* succeeds or fails by the service it comes to and the calls before it.
FairCalls ==
    {call \in ServiceCalls : call.op = "View" \/ call.addr = 1 \/ call.id = 1}

NextServiceFair ==
    \/ \E c \in Callers, call \in FairCalls : Begin(c, call) /\ UNCHANGED storeLog
    \/ \E c \in Callers : muLock(c) /\ UNCHANGED storeLog
    \/ \E c \in Callers : muLocked(c) /\ UNCHANGED storeLog
    \/ \E c \in Callers : AddTokenStep(c) /\ UNCHANGED storeLog
    \/ \E c \in Callers : DeleteTokenStep(c) /\ UNCHANGED storeLog
    \/ \E c \in Callers : UpdateTokenStep(c) /\ UNCHANGED storeLog
    \/ \E c \in Callers : muUnlock(c) /\ UNCHANGED storeLog
    \/ \E c \in Callers : muRLock(c) /\ UNCHANGED storeLog
    \/ \E c \in Callers : ReadStep(c) /\ UNCHANGED storeLog
    \/ \E c \in Callers : muRUnlock(c) /\ UNCHANGED storeLog

SpecServiceFair ==
    InitService /\ [][NextServiceFair]_allVars /\ WF_allVars(Progress)

\* ------------------------------- the machine of inserts of one new address
\* Goroutines call AddToken with one address that the service does not hold,
\* beside updates and reads; nobody deletes. last is the last AddToken call
\* that returned and inserts the number of those that returned success.
Contested == CHOOSE a \in Addrs : \A b \in Addrs : b <= a

AdderCalls ==
    {call \in ServiceCalls :
        \/ call.op = "AddToken" /\ call.addr = Contested
        \/ call.op \in {"UpdateToken", "GetTokenByID"} /\ call.id = 1
        \/ call.op = "GetTokenByAddress" /\ call.addr = Contested
        \/ call.op = "View"}

InitAdders == InitService /\ ~MapHas(registry.addressToID, Contested)

\* The return of a mutating method, AddToken logged.
AdderUnlock(c) ==
    /\ muUnlock(c)
    /\ IF callers[c].op = "AddToken"
       THEN /\ last' = Call("AddToken", callers[c].addr, 0, -1,
                            callers[c].out.ret, callers[c].out.err)
            /\ inserts' = IF callers[c].out.err = NoErr THEN inserts + 1 ELSE inserts
       ELSE UNCHANGED <<last, inserts>>
    /\ UNCHANGED <<issued, views>>

NextAdders ==
    \/ \E c \in Callers, call \in AdderCalls : Begin(c, call) /\ UNCHANGED storeLog
    \/ \E c \in Callers : muLock(c) /\ UNCHANGED storeLog
    \/ \E c \in Callers : muLocked(c) /\ UNCHANGED storeLog
    \/ \E c \in Callers : AddTokenStep(c) /\ UNCHANGED storeLog
    \/ \E c \in Callers : UpdateTokenStep(c) /\ UNCHANGED storeLog
    \/ \E c \in Callers : AdderUnlock(c)
    \/ \E c \in Callers : muRLock(c) /\ UNCHANGED storeLog
    \/ \E c \in Callers : ReadStep(c) /\ UNCHANGED storeLog
    \/ \E c \in Callers : muRUnlock(c) /\ UNCHANGED storeLog

SpecAdders == InitAdders /\ [][NextAdders]_allVars

\* ------------------------------------------------- vocabulary of the claims
\* The slot indices of a registry, and the record held in one.
Slots(r) == 0 .. (Len(r.address) - 1)
RecordAt(r, i) ==
    TokenView(At(r.id, i), At(r.address, i), At(r.name, i), At(r.symbol, i),
              At(r.decimals, i), At(r.feeOnTransferPercent, i),
              At(r.gasForTransfer, i))
\* The addresses and the identifiers held in the slots.
SlotAddresses(r) == {At(r.address, i) : i \in Slots(r)}
SlotIDs(r) == {At(r.id, i) : i \in Slots(r)}
\* The step just taken was this operation, and it returned this error.
Did(call, op, err) == call.op = op /\ call.err = err

\* ---------------------------------------------------------------------- C1
\* C1: in every reachable state the seven per-field sequences have one
\* common length L, and every slot index in 0..L-1 is the idToIndex value of
\* exactly one live identifier.
C1_Density ==
    LET L == Len(registry.address) IN
    /\ Len(registry.name) = L
    /\ Len(registry.symbol) = L
    /\ Len(registry.decimals) = L
    /\ Len(registry.feeOnTransferPercent) = L
    /\ Len(registry.gasForTransfer) = L
    /\ Len(registry.id) = L
    /\ \A s \in 0 .. (L - 1) :
          Cardinality({k \in DOMAIN registry.idToIndex :
                          registry.idToIndex[k] = s}) = 1

\* ---------------------------------------------------------------------- C2
\* C2: in every reachable state, every key k of idToIndex maps to a valid
\* slot, and the identifier stored in the id sequence at that slot is k.
C2_IdIndexCoherent ==
    \A k \in DOMAIN registry.idToIndex :
        /\ registry.idToIndex[k] \in Slots(registry)
        /\ At(registry.id, registry.idToIndex[k]) = k

\* A delete has just relocated the last record into a vacated slot, and a
\* third record stood by.
C2_Witness ==
    /\ Did(last, "deleteToken", NoErr)
    /\ last.slot < Len(registry.address)
    /\ Len(registry.address) = 2
    /\ registry.idToIndex[At(registry.id, last.slot)] = last.slot

\* ---------------------------------------------------------------------- C3
\* C3: in every reachable state addressToID has exactly one key per live
\* record (its keys are the addresses held in the slots), and every key a
\* leads through addressToID and idToIndex to a slot whose address is a.
C3_AddressIndexCoherent ==
    /\ DOMAIN registry.addressToID = SlotAddresses(registry)
    /\ Cardinality(DOMAIN registry.addressToID) = Len(registry.address)
    /\ \A a \in DOMAIN registry.addressToID :
          /\ registry.addressToID[a] \in DOMAIN registry.idToIndex
          /\ registry.idToIndex[registry.addressToID[a]] \in Slots(registry)
          /\ At(registry.address, registry.idToIndex[registry.addressToID[a]]) = a

\* ---------------------------------------------------------------------- C4
\* C4: at any time no two slots of the store hold the same address.
C4_AddressUnique ==
    \A i, j \in Slots(registry) :
        i # j => At(registry.address, i) # At(registry.address, j)

\* An insert has just been refused for an address that a full store holds.
C4_Witness ==
    /\ Did(last, "addToken", ErrAlreadyExists)
    /\ Len(registry.address) = MaxLen
    /\ last.addr \in SlotAddresses(registry)

\* ---------------------------------------------------------------------- C5
\* C5: an insert of an address that a live record holds fails with the
\* already-exists error, returns identifier 0 and leaves the store
\* unchanged: every sequence, both maps and the identifier counter.
C5_DuplicateInsertRefused ==
    [][(last'.op = "addToken" /\ last'.addr \in SlotAddresses(registry))
          => /\ last'.err = ErrAlreadyExists
             /\ last'.ret = 0
             /\ registry' = registry]_vars

\* A duplicate insert has just been refused on a store whose counter is not
\* at its initial value.
C5_Witness ==
    /\ Did(last, "addToken", ErrAlreadyExists)
    /\ last.ret = 0
    /\ registry.nextID # 1
    /\ Len(registry.address) >= 1

\* ---------------------------------------------------------------------- C6
\* C6: the identifier returned by a successful insert differs from every
\* identifier the registry held or returned before, deleted ones included.
C6_NoReuse ==
    [][(last'.op = "addToken" /\ last'.err = NoErr /\ registry' # registry)
          => last'.ret \notin issued]_vars

\* ---------------------------------------------------------------------- C7
\* C7: while an identifier is live, every step other than its own delete
\* keeps it live and keeps the address, name, symbol and decimals that
\* lookup by that identifier returns.
C7_IdentifierStable ==
    [][\A k \in DOMAIN registry.idToIndex :
          ~(last'.op = "deleteToken" /\ last'.id = k /\ last'.err = NoErr)
             => LET before == getTokenByID(k, registry)
                    after == getTokenByID(k, registry') IN
                /\ after.err = NoErr
                /\ before.err = NoErr
                /\ after.view.Address = before.view.Address
                /\ after.view.Name = before.view.Name
                /\ after.view.Symbol = before.view.Symbol
                /\ after.view.Decimals = before.view.Decimals]_vars

\* ---------------------------------------------------------------------- C8
\* C8: a successful delete of an identifier whose slot s is not the last
\* slot moves exactly the record of the last slot into s, all seven fields
\* preserved, and sets that record's idToIndex entry to s; every other
\* surviving record keeps its slot and its idToIndex entry. A delete of the
\* last slot changes no surviving record's slot.
C8_SwapAndPop ==
    [][(last'.op = "deleteToken" /\ last'.err = NoErr /\ registry' # registry)
          => LET s == registry.idToIndex[last'.id]
                 lastIndex == Len(registry.address) - 1
                 moved == At(registry.id, lastIndex)
                 others == (DOMAIN registry.idToIndex) \ {last'.id, moved}
             IN /\ s # lastIndex =>
                      /\ RecordAt(registry', s) = RecordAt(registry, lastIndex)
                      /\ moved \in DOMAIN registry'.idToIndex
                      /\ registry'.idToIndex[moved] = s
                /\ \A i \in Slots(registry') :
                      i # s => RecordAt(registry', i) = RecordAt(registry, i)
                /\ \A k \in others :
                      /\ k \in DOMAIN registry'.idToIndex
                      /\ registry'.idToIndex[k] = registry.idToIndex[k]
                /\ s = lastIndex =>
                      \A k \in (DOMAIN registry.idToIndex) \ {last'.id} :
                         /\ k \in DOMAIN registry'.idToIndex
                         /\ registry'.idToIndex[k] = registry.idToIndex[k]]_vars

\* ---------------------------------------------------------------------- C9
\* C9: after a successful delete of identifier i, whose record had address
\* a, the store is one record shorter, lookup by i and lookup by a return
\* not-found, the full snapshot holds no view with identifier i, and lookup
\* of every other identifier that was live returns the same view as before.
C9_DeleteEffect ==
    [][(last'.op = "deleteToken" /\ last'.err = NoErr /\ registry' # registry)
          => LET i == last'.id
                 a == At(registry.address, registry.idToIndex[i])
                 snapshot == viewRegistry(registry')
             IN /\ Len(registry'.address) = Len(registry.address) - 1
                /\ getTokenByID(i, registry').err = ErrTokenNotFound
                /\ getTokenByAddress(a, registry').err = ErrTokenNotFound
                /\ \A n \in DOMAIN snapshot : snapshot[n].ID # i
                /\ \A k \in (DOMAIN registry.idToIndex) \ {i} :
                      /\ getTokenByID(k, registry').err = NoErr
                      /\ getTokenByID(k, registry') = getTokenByID(k, registry)]_vars

\* --------------------------------------------------------------------- C10
\* C10: a delete or an update of an identifier that has no live record (no
\* idToIndex entry, or no slot that holds it) returns not-found and changes
\* nothing: no sequence, neither map, nor the identifier counter.
C10_AbsentIdRefused ==
    [][(/\ last'.op \in {"deleteToken", "updateToken"}
        /\ \/ last'.id \notin DOMAIN registry.idToIndex
           \/ last'.id \notin SlotIDs(registry))
          => /\ last'.err = ErrTokenNotFound
             /\ registry' = registry]_vars

\* A delete of an identifier that was issued and deleted before has just
\* been refused, on a store that holds records.
C10_Witness ==
    /\ Did(last, "deleteToken", ErrTokenNotFound)
    /\ last.id \in issued
    /\ last.id \notin SlotIDs(registry)
    /\ Len(registry.address) >= 1

\* --------------------------------------------------------------------- C11
\* C11: a successful update(id, fee, gas) makes the fee and the gas at the
\* slot of id exactly the given values and changes nothing else: not the
\* address, name, symbol, decimals or identifier of any record, not the fee
\* or gas of another record, no length, neither map, nor the counter.
C11_UpdateFrame ==
    [][\A id \in IDs, fg \in FeeGas :
          (/\ Did(last', "updateToken", NoErr)
           /\ last'.id = id
           /\ CallUpdateToken(id, fg))
             => LET s == registry.idToIndex[id] IN
                /\ At(registry'.feeOnTransferPercent, s) = fg[1]
                /\ At(registry'.gasForTransfer, s) = fg[2]
                /\ Len(registry'.feeOnTransferPercent) = Len(registry.address)
                /\ Len(registry'.gasForTransfer) = Len(registry.address)
                /\ \A i \in Slots(registry) \ {s} :
                      /\ At(registry'.feeOnTransferPercent, i)
                            = At(registry.feeOnTransferPercent, i)
                      /\ At(registry'.gasForTransfer, i)
                            = At(registry.gasForTransfer, i)
                /\ registry'.address = registry.address
                /\ registry'.name = registry.name
                /\ registry'.symbol = registry.symbol
                /\ registry'.decimals = registry.decimals
                /\ registry'.id = registry.id
                /\ registry'.idToIndex = registry.idToIndex
                /\ registry'.addressToID = registry.addressToID
                /\ registry'.nextID = registry.nextID]_vars

\* An update has just given one record of a full store a fee and a gas
\* estimate, and another record still has none.
C11_Witness ==
    /\ Did(last, "updateToken", NoErr)
    /\ Len(registry.address) = MaxLen
    /\ At(registry.feeOnTransferPercent, last.slot) = 55
    /\ At(registry.gasForTransfer, last.slot) = 21000
    /\ \E i \in Slots(registry) :
          /\ i # last.slot
          /\ At(registry.feeOnTransferPercent, i) = 0
          /\ At(registry.gasForTransfer, i) = 0

\* --------------------------------------------------------------------- C14
\* C14: in every reachable state, reconstructing a registry from the full
\* snapshot succeeds, and the new registry returns, for every identifier
\* and every address of the original, the view the original returns.
C14_RoundTrip ==
    LET res == NewTokenRegistryFromViews(viewRegistry(registry)) IN
    /\ res.err = NoErr
    /\ \A k \in DOMAIN registry.idToIndex :
          getTokenByID(k, res.registry) = getTokenByID(k, registry)
    /\ \A a \in DOMAIN registry.addressToID :
          getTokenByAddress(a, res.registry) = getTokenByAddress(a, registry)

\* --------------------------------------------------------------------- C19
\* C19: a successful insert returns the value the counter had, advances the
\* counter by exactly one and appends one record at the new last slot with
\* the given address, name, symbol and decimals, fee 0 and gas 0; lookup by
\* the returned identifier and lookup by the address return that record;
\* every record that was live keeps its slot, its fields and its lookup.
C19_InsertEffect ==
    [][\A token \in Tokens :
          (CallAddToken(token) /\ last'.err = NoErr)
             => LET L == Len(registry.address)
                    added == TokenView(last'.ret, token[1], token[2], token[3],
                                       token[4], 0, 0)
                IN /\ last'.ret = registry.nextID
                   /\ registry'.nextID = registry.nextID + 1
                   /\ Len(registry'.address) = L + 1
                   /\ RecordAt(registry', L) = added
                   /\ getTokenByID(last'.ret, registry')
                         = [view |-> added, err |-> NoErr]
                   /\ getTokenByAddress(token[1], registry')
                         = [view |-> added, err |-> NoErr]
                   /\ \A i \in Slots(registry) :
                         RecordAt(registry', i) = RecordAt(registry, i)
                   /\ \A k \in DOMAIN registry.idToIndex :
                         /\ k \in DOMAIN registry'.idToIndex
                         /\ registry'.idToIndex[k] = registry.idToIndex[k]
                         /\ getTokenByID(k, registry') = getTokenByID(k, registry)]_vars

\* --------------------------------------------------------------------- C12
\* View n of the snapshot has the identifier, or the address, of an earlier
\* view.
RepeatsID(n) == \E m \in 1 .. (n - 1) : views[m].ID = views[n].ID
RepeatsAddress(n) == \E m \in 1 .. (n - 1) : views[m].Address = views[n].Address
Repeating == {n \in DOMAIN views : RepeatsID(n) \/ RepeatsAddress(n)}
Reconstructed == last.op = "NewTokenRegistryFromViews"

\* C12: reconstruction fails, and returns no registry, exactly when two
\* views share an identifier or an address; the earliest view that repeats
\* an identifier or an address of an earlier view decides the error:
\* duplicate-identifier if it repeats an identifier, else duplicate-address.
C12_DuplicateErrors ==
    Reconstructed =>
       /\ (last.err # NoErr) <=>
             \E m, n \in DOMAIN views :
                /\ m # n
                /\ \/ views[m].ID = views[n].ID
                   \/ views[m].Address = views[n].Address
       /\ (last.err # NoErr) <=> (registry = NilRegistry)
       /\ Repeating # {} =>
             LET first == CHOOSE n \in Repeating : \A m \in Repeating : n <= m
             IN last.err = IF RepeatsID(first) THEN ErrDuplicateID
                           ELSE ErrDuplicateAddress

\* A snapshot was refused for a duplicate address found at its second view,
\* though its third view repeats an identifier.
C12_Witness ==
    /\ Reconstructed
    /\ Len(views) = 3
    /\ RepeatsAddress(2) /\ ~RepeatsID(2)
    /\ RepeatsID(3)
    /\ last.err = ErrDuplicateAddress

\* --------------------------------------------------------------------- C13
\* The largest identifier of a non-empty snapshot.
MaxViewID == CHOOSE i \in ViewIDs(views) : \A j \in ViewIDs(views) : j <= i

\* C13: reconstruction from a snapshot of pairwise distinct identifiers and
\* pairwise distinct addresses succeeds; the store holds the views in input
\* order, each retrievable by identifier and by address, and the counter is
\* the largest identifier plus one, or 1 for the empty snapshot.
C13_ReconstructEffect ==
    (/\ Reconstructed
     /\ \A m, n \in DOMAIN views :
           m # n => /\ views[m].ID # views[n].ID
                    /\ views[m].Address # views[n].Address)
       => /\ last.err = NoErr
          /\ viewRegistry(registry) = views
          /\ \A n \in DOMAIN views :
                /\ getTokenByID(views[n].ID, registry)
                      = [view |-> views[n], err |-> NoErr]
                /\ getTokenByAddress(views[n].Address, registry)
                      = [view |-> views[n], err |-> NoErr]
          /\ registry.nextID = IF views = <<>> THEN 1 ELSE MaxViewID + 1

\* --------------------------------------------------------------------- C20
\* C20: on a registry created empty, the n-th successful insert returns n,
\* whatever deletes, updates and failed inserts come in between; a step that
\* is not a successful insert leaves the identifier counter as it was.
C20_NthInsert ==
    [][IF inserts' = inserts + 1
       THEN last'.ret = inserts'
       ELSE registry'.nextID = registry.nextID]_allVars

\* ------------------------------------------------- vocabulary of a service
\* c is between taking and releasing the lock: it executes against the
\* store.
Holding(c) == callers[c].pc \in {"store", "Unlock", "RUnlock"}
Writing == {c \in Callers : Holding(c) /\ callers[c].op \in Mutations}
Reading == {c \in Callers : Holding(c) /\ callers[c].op \in Reads}
\* d acquired the lock before c did.
Precedes(d, c) ==
    \E i, j \in DOMAIN ghost.order :
        i < j /\ ghost.order[i] = d /\ ghost.order[j] = c

\* --------------------------------------------------------------------- C15
\* C15: on one service, at most one mutating operation executes against the
\* store at any instant, and while one does no read operation executes
\* against it.
C15_Exclusion ==
    /\ Cardinality(Writing) <= 1
    /\ Writing # {} => Reading = {}

\* A delete is between its swap and its truncation while another goroutine
\* waits to read.
C15_Witness ==
    \E c, d \in Callers :
        /\ callers[c].pc = "store" /\ callers[c].line = 163
        /\ callers[c].index # callers[c].lastIndex
        /\ callers[d].pc = "RLock"

\* --------------------------------------------------------------------- C16
\* C16: with the statements of a mutation as separate steps, what a read
\* returns is the result of that read on the store as a complete mutation
\* (or the construction) left it, never on a state in the middle of a
\* mutation.
C16_NoTornRead ==
    \A c \in Callers :
        callers[c].pc = "RUnlock"
           => callers[c].out = Read(CallOf(c), callers[c].base)

\* A lookup that began after an update had returned gives the new fee with
\* the new gas.
C16_Witness ==
    \E c \in Callers :
        /\ callers[c].pc = "RUnlock"
        /\ callers[c].op = "GetTokenByID"
        /\ callers[c].out.err = NoErr
        /\ callers[c].out.ret.FeeOnTransferPercent = ServiceFeeGas[1]
        /\ callers[c].out.ret.GasForTransfer = ServiceFeeGas[2]

\* --------------------------------------------------------------------- C17
\* C17: once every call has returned, the common length of the sequences is
\* the initial count plus the inserts that returned success minus the
\* deletes that returned success, in every interleaving.
C17_FinalCount ==
    (\A c \in Callers : callers[c].pc \in {"idle", "done"})
       => \A n \in DOMAIN Fields :
             Len(registry[Fields[n]]) = ghost.initial + ghost.added - ghost.deleted

\* Every call has returned, among them a successful insert and a successful
\* delete.
C17_Witness ==
    /\ \A c \in Callers : callers[c].pc = "done"
    /\ ghost.added = 1
    /\ ghost.deleted = 1
    /\ Len(registry.address) = ghost.initial

\* --------------------------------------------------------------------- C18
\* C18: every call of a service returns what the same call returns on a
\* plain store on which the calls run one at a time in the order they
\* acquired the lock; the store of the service is that store whenever no
\* mutation is executing; and a call that began after another call had
\* returned acquired the lock after it.
C18_Refinement ==
    /\ \A c \in Callers :
          callers[c].pc \in {"Unlock", "RUnlock"}
             => callers[c].out = callers[c].want
    /\ Writing = {} => registry = ghost.shadow
    /\ \A c \in Callers :
          Holding(c) => \A d \in callers[c].before : Precedes(d, c)

\* A View that began after a successful insert had returned shows the
\* inserted record.
C18_Witness ==
    \E c \in Callers :
        /\ callers[c].pc = "RUnlock"
        /\ callers[c].op = "View"
        /\ callers[c].before # {}
        /\ ghost.added = 1
        /\ Len(callers[c].out.ret) = ghost.initial + 1

\* --------------------------------------------------------------------- C21
\* c has called and has not returned.
InFlight(c) == callers[c].pc \notin {"idle", "done"}

\* C21: every method releases the lock it took on every return path, the
\* error returns included, so with finitely many callers and a lock that
\* grants a request that can be granted, every call that began returns in
\* the end; no state with a call in flight is without a next step.
C21_EveryCallReturns ==
    \A c \in Callers : InFlight(c) ~> (callers[c].pc = "done")

\* A delete is about to return not-found, the lock still to be released,
\* while another goroutine waits for the lock.
C21_Witness ==
    \E c, d \in Callers :
        /\ callers[c].pc = "Unlock"
        /\ callers[c].out.err = ErrTokenNotFound
        /\ callers[d].pc = "Lock"

\* --------------------------------------------------------------------- C22
\* C22: the read methods of a service do not exclude each other: when no
\* writer holds or awaits the lock, a goroutine asking for the read lock
\* gets it, whatever readers hold it already.
C22_ReadersShare ==
    \A c \in Callers :
        (callers[c].pc = "RLock" /\ mu.w = 0) => ENABLED muRLock(c)

\* Two goroutines are inside read methods at once, one of them in View.
C22_Witness ==
    \E c, d \in Callers :
        /\ c # d
        /\ {c, d} \subseteq mu.r
        /\ callers[c].pc = "store" /\ callers[c].op = "View"
        /\ callers[d].pc \in {"store", "RUnlock"}
        /\ callers[d].op \in Reads

\* --------------------------------------------------------------------- C23
\* C23: when goroutines call AddToken with one address that is not live
\* beforehand, and nobody deletes, exactly one call succeeds and every other
\* one returns the already-exists error, in every interleaving; the address
\* has one live record in the end.
C23_OneInsertWins ==
    /\ inserts <= 1
    /\ last.op = "AddToken"
          => /\ inserts = 1
             /\ last.err \in {NoErr, ErrAlreadyExists}
    /\ \A c \in Callers :
          (callers[c].pc = "Unlock" /\ callers[c].op = "AddToken")
             => callers[c].out.err =
                   IF inserts = 0 THEN NoErr ELSE ErrAlreadyExists
    /\ (inserts = 1 /\ Writing = {})
          => /\ Cardinality({i \in Slots(registry) :
                               At(registry.address, i) = Contested}) = 1
             /\ getTokenByAddress(Contested, registry).err = NoErr
             /\ getTokenByAddress(Contested, registry).view.Address = Contested

\* Every goroutine called AddToken with the address and has returned, the
\* last one with the already-exists error.
C23_Witness ==
    /\ \A c \in Callers : callers[c].pc = "done"
    /\ Len(ghost.order) = NumCallers
    /\ ghost.added = 1
    /\ Len(registry.address) = ghost.initial + 1
    /\ Did(last, "AddToken", ErrAlreadyExists)

\* --------------------------------------------------------------------- C24
\* C24: in every reachable state, lookup by address a returns not-found if a
\* has no entry in addressToID or that identifier has no entry in idToIndex;
\* otherwise it returns a view whose Address is a, the same view as lookup
\* by the identifier addressToID[a]: never the record of another address.
C24_LookupByAddress ==
    \A a \in Addrs :
        LET res == getTokenByAddress(a, registry) IN
        IF \/ ~MapHas(registry.addressToID, a)
           \/ ~MapHas(registry.idToIndex, registry.addressToID[a])
        THEN res.err = ErrTokenNotFound
        ELSE /\ res.err = NoErr
             /\ res.view.Address = a
             /\ res = getTokenByID(registry.addressToID[a], registry)

\* --------------------------------------------------------------------- C25
\* C25: in every reachable state the full snapshot has one view per live
\* record in slot order: the view at position i is built from slot i, its
\* length is the number of live records, its identifiers are pairwise
\* distinct, its addresses are pairwise distinct, and each view is what
\* lookup by its identifier returns.
C25_SnapshotOfLiveRecords ==
    LET snapshot == viewRegistry(registry) IN
    /\ Len(snapshot) = Len(registry.address)
    /\ \A i \in Slots(registry) : snapshot[i + 1] = RecordAt(registry, i)
    /\ \A m, n \in DOMAIN snapshot :
          m # n => /\ snapshot[m].ID # snapshot[n].ID
                   /\ snapshot[m].Address # snapshot[n].Address
    /\ \A n \in DOMAIN snapshot :
          getTokenByID(snapshot[n].ID, registry)
             = [view |-> snapshot[n], err |-> NoErr]

\* --------------------------------------------------------------------- C26
\* C26: the read operations, found or not found, leave the store as it is:
\* a step of a goroutine that is in a read method changes no sequence, no map
\* entry and not the counter.
C26_ReadsWriteNothing ==
    [][\A c \in Callers :
          (/\ callers'[c] # callers[c]
           /\ callers[c].op \in Reads \/ callers'[c].op \in Reads)
             => registry' = registry]_allVars

\* Two lookups ran under the shared lock, one found its record and one did
\* not.
C26_Witness ==
    \E c, d \in Callers :
        /\ callers[c].pc = "RUnlock" /\ callers[d].pc = "RUnlock"
        /\ callers[c].op = "GetTokenByID" /\ callers[c].out.err = NoErr
        /\ callers[d].op = "GetTokenByAddress"
        /\ callers[d].out.err = ErrTokenNotFound

\* --------------------------------------------------------------------- C27
\* C27: in every reachable state, the state right after reconstruction from
\* any accepted snapshot included, the identifier counter is greater than
\* every live identifier, so a successful insert returns no identifier that
\* is live and overwrites no idToIndex entry: the identifier it returned is
\* held by one slot only.
C27_CounterAboveLive ==
    /\ \A id \in SlotIDs(registry) \cup DOMAIN registry.idToIndex :
          registry.nextID > id
    /\ Did(last, "addToken", NoErr)
          => Cardinality({i \in Slots(registry) :
                            At(registry.id, i) = last.ret}) = 1

\* --------------------------------------------------------------------- C28
\* C28: identifier permanence survives a snapshot round trip: an identifier
\* that an insert returned is not returned by an insert on the registry
\* reconstructed from a later snapshot, also when its record was deleted
\* before the snapshot was taken.
C28_PermanenceAcrossSnapshot ==
    [][inserts' = inserts + 1 => last'.ret \notin issued]_allVars

====
